---- MODULE Spec2Model ----
(***************************************************************************)
(* Model of fund_vs_benchmark.py: one run of the dashboard script, from    *)
(* the price download to the risk snapshot.  The script is linear; pc is   *)
(* the position of the run in it.  Prices are positive integers, a missing *)
(* cell of a price table is NaN, and every derived figure is an exact      *)
(* rational <<numerator, denominator>> in lowest terms, with <<0, 0>>      *)
(* standing for the floating-point not-a-number.                           *)
(***************************************************************************)
EXTENDS Integers, Sequences, FiniteSets, TLC

\* ------------------------------------------------------------------ bounds
MaxRows == 3
MaxPrice == 2

\* --------------------------------------------------------------- constants
fund_ticker == "FUND"
benchmark_ticker == "BENCH"
fund_name == "Fund Name"
tickers == <<fund_ticker, benchmark_ticker>>

\* A missing cell of a price table.
NaN == -1

\* ------------------------------------------------------ float arithmetic
NaNQ == <<0, 0>>

IsNaN(x) == x[2] = 0

Abs(n) == IF n < 0 THEN -n ELSE n

RECURSIVE GCD(_, _)
GCD(a, b) == IF b = 0 THEN a ELSE GCD(b, a % b)

\* n / d; a zero divisor does not occur for positive prices.
Rat(n, d) ==
    IF d = 0 THEN NaNQ
    ELSE LET g == GCD(Abs(n), Abs(d))
             s == IF d < 0 THEN -1 ELSE 1
         IN  <<(s * n) \div g, (s * d) \div g>>

Q(n) == <<n, 1>>

QAdd(a, b) == IF IsNaN(a) \/ IsNaN(b) THEN NaNQ
              ELSE Rat(a[1] * b[2] + b[1] * a[2], a[2] * b[2])

QSub(a, b) == IF IsNaN(a) \/ IsNaN(b) THEN NaNQ
              ELSE Rat(a[1] * b[2] - b[1] * a[2], a[2] * b[2])

QMul(a, b) == IF IsNaN(a) \/ IsNaN(b) THEN NaNQ
              ELSE Rat(a[1] * b[1], a[2] * b[2])

QDiv(a, b) == IF IsNaN(a) \/ IsNaN(b) THEN NaNQ
              ELSE Rat(a[1] * b[2], a[2] * b[1])

\* Comparisons; a comparison with not-a-number is false, as in IEEE 754.
QLe(a, b) == ~IsNaN(a) /\ ~IsNaN(b) /\ a[1] * b[2] <= b[1] * a[2]

QLt(a, b) == ~IsNaN(a) /\ ~IsNaN(b) /\ a[1] * b[2] < b[1] * a[2]

\* .round(2): to the nearest hundredth, ties to the even hundredth.
Round2(x) ==
    IF IsNaN(x) THEN NaNQ
    ELSE LET n == x[1] * 100
             d == x[2]
             fl == n \div d
             rem2 == 2 * (n - fl * d)
             k == IF rem2 < d THEN fl
                  ELSE IF rem2 > d THEN fl + 1
                  ELSE IF fl % 2 = 0 THEN fl ELSE fl + 1
         IN  Rat(k, 100)

\* ----------------------------------------------------------- data frames
\* A frame: column labels, the dates of its rows, and the rows, each a
\* sequence of cells in column order.
Frame(cols, idx, vals) == [columns |-> cols, index |-> idx, values |-> vals]

EmptyFrame == Frame(<<>>, <<>>, <<>>)

\* A series: labels and one value per label.
Series(idx, vals) == [index |-> idx, values |-> vals]

EmptySeries == Series(<<>>, <<>>)

Range(s) == {s[i] : i \in 1..Len(s)}

\* DataFrame.empty: no rows or no columns.
DataEmpty(d) == Len(d.values) = 0 \/ Len(d.columns) = 0

\* Cleaning that forgets the forward fill.
FfillNone(f) == f

\* DataFrame.ffill: each missing cell takes the column's previous filled cell.
Ffill(f) ==
    LET nc == Len(f.columns)
        filled[i \in 0..Len(f.values)] ==
            IF i = 0 THEN [c \in 1..nc |-> NaN]
            ELSE [c \in 1..nc |->
                    IF f.values[i][c] # NaN THEN f.values[i][c]
                    ELSE filled[i - 1][c]]
    IN  Frame(f.columns, f.index, [i \in 1..Len(f.values) |-> filled[i]])

\* DataFrame.dropna: drop every row that has a missing cell.
Dropna(f) ==
    LET n == Len(f.values)
        keep == SelectSeq([i \in 1..n |-> i],
                          LAMBDA i : \A c \in 1..Len(f.columns) : f.values[i][c] # NaN)
    IN  Frame(f.columns,
              [k \in 1..Len(keep) |-> f.index[keep[k]]],
              [k \in 1..Len(keep) |-> f.values[keep[k]]])

\* A missing-ticker check that never finds a ticker missing.
MissingNone(f) == <<>>

\* [t for t in tickers if t not in available_tickers]
Missing(f) == SelectSeq(tickers, LAMBDA t : t \notin Range(f.columns))

\* Position of a label in an index (label lookup).
Loc(idx, label) == CHOOSE i \in 1..Len(idx) : idx[i] = label

HasLabel(idx, label) == \E i \in 1..Len(idx) : idx[i] = label

Column(f, label) ==
    LET c == Loc(f.columns, label)
    IN  [i \in 1..Len(f.values) |-> f.values[i][c]]

\* ---------------------------------------------------- returns and chart
\* price_data.iloc[k] as a series labelled by the columns.
Iloc(f, k) == Series(f.columns, f.values[k])

\* ((end_prices - start_prices) / start_prices * 100).round(2), aligned on
\* the labels of the two series.
PctReturn(startp, endp) ==
    Series(endp.index,
           [c \in 1..Len(endp.index) |->
               LET s == Q(startp.values[Loc(startp.index, endp.index[c])])
                   e == Q(endp.values[c])
               IN  Round2(QMul(QDiv(QSub(e, s), s), Q(100)))])

\* [fund_name if t == fund_ticker else "Benchmark" for t in returns.index]
Relabel(idx) ==
    [c \in 1..Len(idx) |-> IF idx[c] = fund_ticker THEN fund_name ELSE "Benchmark"]

\* Normalization that divides every column by the first column's start price.
NormalizeByFirstColumn(f, startp) ==
    Frame(f.columns, f.index,
          [i \in 1..Len(f.values) |->
              [c \in 1..Len(f.columns) |->
                  QMul(QDiv(Q(f.values[i][c]), Q(startp.values[1])), Q(100))]])

\* price_data / start_prices * 100: each column is divided by the start
\* price that carries the same label.
Normalize(f, startp) ==
    Frame(f.columns, f.index,
          [i \in 1..Len(f.values) |->
              [c \in 1..Len(f.columns) |->
                  QMul(QDiv(Q(f.values[i][c]),
                            Q(startp.values[Loc(startp.index, f.columns[c])])),
                       Q(100))]])

\* ---------------------------------------------------------- risk metrics
\* fund_prices.pct_change().dropna(): the first change is undefined and is
\* dropped.
PctChange(p) ==
    LET chg == [i \in 1..Len(p) |->
                   IF i = 1 THEN NaNQ
                   ELSE QSub(QDiv(Q(p[i]), Q(p[i - 1])), Q(1))]
    IN  SelectSeq(chg, LAMBDA x : ~IsNaN(x))

RECURSIVE QSum(_)
QSum(s) == IF Len(s) = 0 THEN Q(0) ELSE QAdd(s[1], QSum(Tail(s)))

\* Square of Series.std(): the sample variance (divisor count - 1), which is
\* not-a-number below two observations.
StdSq(r) ==
    IF Len(r) < 2 THEN NaNQ
    ELSE LET mean == QDiv(QSum(r), Q(Len(r)))
             dev == [i \in 1..Len(r) |-> QMul(QSub(r[i], mean), QSub(r[i], mean))]
         IN  QDiv(QSum(dev), Q(Len(r) - 1))

\* (1 + daily_returns).cumprod()
Cumprod(r) ==
    LET prod[i \in 0..Len(r)] ==
            IF i = 0 THEN Q(1) ELSE QMul(prod[i - 1], QAdd(Q(1), r[i]))
    IN  [i \in 1..Len(r) |-> prod[i]]

QMax(a, b) == IF QLe(a, b) THEN b ELSE a

QMin(a, b) == IF QLe(a, b) THEN a ELSE b

\* The overall maximum in place of the running maximum.
CummaxOverall(s) ==
    LET m[i \in 1..Len(s)] == IF i = 1 THEN s[1] ELSE QMax(m[i - 1], s[i])
    IN  [i \in 1..Len(s) |-> m[Len(s)]]

\* cum_returns.cummax(): the running maximum.
Cummax(s) ==
    LET m[i \in 1..Len(s)] == IF i = 1 THEN s[1] ELSE QMax(m[i - 1], s[i])
    IN  [i \in 1..Len(s) |-> m[i]]

\* (cum_returns - cum_max) / cum_max
Drawdowns(cum, cmax) ==
    [i \in 1..Len(cum) |-> QDiv(QSub(cum[i], cmax[i]), cmax[i])]

\* Series.min(): not-a-number for an empty series.
SeriesMin(s) ==
    LET m[i \in 0..Len(s)] ==
            IF i = 0 THEN NaNQ ELSE IF i = 1 THEN s[1] ELSE QMin(m[i - 1], s[i])
    IN  m[Len(s)]

RECURSIVE Insert(_, _)
Insert(x, s) ==
    IF Len(s) = 0 THEN <<x>>
    ELSE IF QLe(x, s[1]) THEN <<x>> \o s
    ELSE <<s[1]>> \o Insert(x, Tail(s))

RECURSIVE Sorted(_)
Sorted(s) == IF Len(s) = 0 THEN <<>> ELSE Insert(s[1], Sorted(Tail(s)))

\* The percentile without interpolation: the lower order statistic.
PercentileLower(a, q) ==
    LET s == Sorted(a)
        n == Len(a)
    IN  s[(q * (n - 1)) \div 100 + 1]

\* np.percentile(a, q) on a non-empty array, default method: linear
\* interpolation between the two order statistics around the virtual index
\* q / 100 * (n - 1).
Percentile(a, q) ==
    LET s == Sorted(a)
        n == Len(a)
        lo == (q * (n - 1)) \div 100
        gamma == Rat((q * (n - 1)) % 100, 100)
        hi == IF lo + 2 <= n THEN lo + 2 ELSE n
    IN  QAdd(s[lo + 1], QMul(gamma, QSub(s[hi], s[lo + 1])))

\* What np.percentile does on an empty array depends on the numpy release:
\* it returns not-a-number or raises IndexError.
PercentileEmptyOutcomes == {"nan", "IndexError"}

\* ------------------------------------------------------------------ state
VARIABLES
    pc,             \* position of the run in the script
    data,           \* the downloaded table: [multi, close]
    price_data,     \* the closing prices, then the cleaned closing prices
    missing,        \* requested tickers without a column
    start_prices,   \* first row of price_data
    end_prices,     \* last row of price_data
    returns,        \* rounded percentage return per label
    norm_data,      \* prices rebased to 100 at the first date
    shown_returns,  \* the two figures of the performance snapshot
    daily_returns,  \* daily simple returns of the fund
    volatility_sq,  \* (volatility / 100) squared: variance of the returns * 252
    max_drawdown,   \* maximum drawdown, percent
    VaR_95,         \* 5th percentile of the daily returns, percent
    rendered,       \* what the page shows, in order
    exception       \* the uncaught exception that ended the run, if any

vars == <<pc, data, price_data, missing, start_prices, end_prices, returns,
          norm_data, shown_returns, daily_returns, volatility_sq,
          max_drawdown, VaR_95, rendered, exception>>

Cells == {NaN} \cup (1..MaxPrice)

\* Column layouts of a download: the Close columns of a multi-level table,
\* in any order and possibly without a requested ticker, or the field
\* columns of a single-level table.
MultiColumns == {<<>>, <<fund_ticker>>, <<benchmark_ticker>>,
                 <<fund_ticker, benchmark_ticker>>,
                 <<benchmark_ticker, fund_ticker>>}

FlatColumns == {<<"Close">>, <<"Close", "Volume">>}

Tables(cols) ==
    UNION {{Frame(cols, [i \in 1..n |-> i], vals) :
               vals \in [1..n -> [1..Len(cols) -> Cells]]} : n \in 0..MaxRows}

Init ==
    /\ pc = "download"
    /\ data = [multi |-> TRUE, close |-> EmptyFrame]
    /\ price_data = EmptyFrame
    /\ missing = <<>>
    /\ start_prices = EmptySeries
    /\ end_prices = EmptySeries
    /\ returns = EmptySeries
    /\ norm_data = EmptyFrame
    /\ shown_returns = [fund |-> NaNQ, benchmark |-> NaNQ]
    /\ daily_returns = <<>>
    /\ volatility_sq = NaNQ
    /\ max_drawdown = NaNQ
    /\ VaR_95 = NaNQ
    /\ rendered = <<>>
    /\ exception = "none"

\* data = yf.download(tickers, start=start, end=end)
Download ==
    /\ pc = "download"
    /\ \E m \in BOOLEAN :
         \E cols \in (IF m THEN MultiColumns ELSE FlatColumns) :
           \E t \in Tables(cols) :
             data' = [multi |-> m, close |-> t]
    /\ pc' = "check_empty"
    /\ UNCHANGED <<price_data, missing, start_prices, end_prices, returns,
                   norm_data, shown_returns, daily_returns, volatility_sq,
                   max_drawdown, VaR_95, rendered, exception>>

\* if data.empty: st.error(...); st.stop()
CheckEmpty ==
    /\ pc = "check_empty"
    /\ IF DataEmpty(data.close)
       THEN /\ rendered' = Append(rendered, "error: no data")
            /\ pc' = "stopped"
       ELSE /\ rendered' = rendered
            /\ pc' = "select_close"
    /\ UNCHANGED <<data, price_data, missing, start_prices, end_prices, returns,
                   norm_data, shown_returns, daily_returns, volatility_sq,
                   max_drawdown, VaR_95, exception>>

\* price_data = data["Close"].copy(), or for a single-level table the table
\* itself with its columns renamed to tickers[:1], which raises ValueError
\* unless the table has exactly one column.
SelectClose ==
    /\ pc = "select_close"
    /\ IF data.multi
       THEN /\ price_data' = data.close
            /\ exception' = exception
            /\ pc' = "clean"
       ELSE IF Len(data.close.columns) = 1
       THEN /\ price_data' = Frame(SubSeq(tickers, 1, 1), data.close.index,
                                   data.close.values)
            /\ exception' = exception
            /\ pc' = "clean"
       ELSE /\ price_data' = data.close
            /\ exception' = "ValueError"
            /\ pc' = "raised"
    /\ UNCHANGED <<data, missing, start_prices, end_prices, returns,
                   norm_data, shown_returns, daily_returns, volatility_sq,
                   max_drawdown, VaR_95, rendered>>

\* price_data = price_data.ffill().dropna()
Clean ==
    /\ pc = "clean"
    /\ price_data' = Dropna(Ffill(price_data))
    /\ pc' = "check_missing"
    /\ UNCHANGED <<data, missing, start_prices, end_prices, returns,
                   norm_data, shown_returns, daily_returns, volatility_sq,
                   max_drawdown, VaR_95, rendered, exception>>

\* missing = [...]; if missing: st.error(...); st.stop()
CheckMissing ==
    /\ pc = "check_missing"
    /\ missing' = Missing(price_data)
    /\ IF Len(missing') > 0
       THEN /\ rendered' = Append(rendered, "error: missing tickers")
            /\ pc' = "stopped"
       ELSE /\ rendered' = rendered
            /\ pc' = "returns"
    /\ UNCHANGED <<data, price_data, start_prices, end_prices, returns,
                   norm_data, shown_returns, daily_returns, volatility_sq,
                   max_drawdown, VaR_95, exception>>

\* start_prices, end_prices, returns, the relabelling and norm_data;
\* price_data.iloc[0] raises IndexError on a table without rows.
ComputeReturns ==
    /\ pc = "returns"
    /\ IF Len(price_data.values) = 0
       THEN /\ exception' = "IndexError"
            /\ pc' = "raised"
            /\ UNCHANGED <<start_prices, end_prices, returns, norm_data>>
       ELSE /\ start_prices' = Iloc(price_data, 1)
            /\ end_prices' = Iloc(price_data, Len(price_data.values))
            /\ returns' = LET r == PctReturn(start_prices', end_prices')
                          IN  Series(Relabel(r.index), r.values)
            /\ norm_data' = Normalize(price_data, start_prices')
            /\ exception' = exception
            /\ pc' = "snapshot"
    /\ UNCHANGED <<data, price_data, missing, shown_returns, daily_returns,
                   volatility_sq, max_drawdown, VaR_95, rendered>>

\* The performance snapshot: the subheader, then returns[fund_name] and
\* returns['Benchmark'], each a label lookup that raises KeyError when the
\* label is absent.
RenderSnapshot ==
    /\ pc = "snapshot"
    /\ rendered' = Append(rendered, "Performance Snapshot")
    /\ IF HasLabel(returns.index, fund_name) /\ HasLabel(returns.index, "Benchmark")
       THEN /\ shown_returns' =
                  [fund |-> returns.values[Loc(returns.index, fund_name)],
                   benchmark |-> returns.values[Loc(returns.index, "Benchmark")]]
            /\ exception' = exception
            /\ pc' = "chart"
       ELSE /\ shown_returns' = shown_returns
            /\ exception' = "KeyError"
            /\ pc' = "raised"
    /\ UNCHANGED <<data, price_data, missing, start_prices, end_prices, returns,
                   norm_data, daily_returns, volatility_sq, max_drawdown,
                   VaR_95>>

\* The line chart of norm_data.
RenderChart ==
    /\ pc = "chart"
    /\ rendered' = Append(rendered, "chart")
    /\ pc' = "risk"
    /\ UNCHANGED <<data, price_data, missing, start_prices, end_prices, returns,
                   norm_data, shown_returns, daily_returns, volatility_sq,
                   max_drawdown, VaR_95, exception>>

\* The risk metrics of the fund.
ComputeRisk ==
    /\ pc = "risk"
    /\ IF ~HasLabel(price_data.columns, fund_ticker)
       THEN /\ exception' = "KeyError"
            /\ pc' = "raised"
            /\ UNCHANGED <<daily_returns, volatility_sq, max_drawdown, VaR_95>>
       ELSE LET fund_prices == Column(price_data, fund_ticker)
                dr == PctChange(fund_prices)
                cum_returns == Cumprod(dr)
                cum_max == Cummax(cum_returns)
                drawdowns == Drawdowns(cum_returns, cum_max)
            IN  /\ daily_returns' = dr
                /\ volatility_sq' = QMul(StdSq(dr), Q(252))
                /\ max_drawdown' = QMul(SeriesMin(drawdowns), Q(100))
                /\ IF Len(dr) > 0
                   THEN /\ VaR_95' = QMul(Percentile(dr, 5), Q(100))
                        /\ exception' = exception
                        /\ pc' = "risk_snapshot"
                   ELSE \E o \in PercentileEmptyOutcomes :
                          IF o = "nan"
                          THEN /\ VaR_95' = NaNQ
                               /\ exception' = exception
                               /\ pc' = "risk_snapshot"
                          ELSE /\ VaR_95' = VaR_95
                               /\ exception' = "IndexError"
                               /\ pc' = "raised"
    /\ UNCHANGED <<data, price_data, missing, start_prices, end_prices, returns,
                   norm_data, shown_returns, rendered>>

\* The risk snapshot: volatility, maximum drawdown and VaR as formatted.
RenderRisk ==
    /\ pc = "risk_snapshot"
    /\ rendered' = Append(rendered, "Risk Profile Snapshot")
    /\ pc' = "done"
    /\ UNCHANGED <<data, price_data, missing, start_prices, end_prices, returns,
                   norm_data, shown_returns, daily_returns, volatility_sq,
                   max_drawdown, VaR_95, exception>>

Next ==
    \/ Download
    \/ CheckEmpty
    \/ SelectClose
    \/ Clean
    \/ CheckMissing
    \/ ComputeReturns
    \/ RenderSnapshot
    \/ RenderChart
    \/ ComputeRisk
    \/ RenderRisk

Spec == Init /\ [][Next]_vars

\* ------------------------------------------------------------ properties
Terminal == {"stopped", "raised", "done"}

\* The price table has been cleaned in this run.
Cleaned ==
    \/ pc \in {"check_missing", "returns", "snapshot", "chart", "risk",
               "risk_snapshot", "done"}
    \/ pc = "stopped" /\ ~DataEmpty(data.close)
    \/ pc = "raised" /\ exception # "ValueError"

\* The return and chart figures have been computed in this run.
ReturnsComputed ==
    \/ pc \in {"snapshot", "chart", "risk", "risk_snapshot", "done"}
    \/ pc = "raised" /\ "Performance Snapshot" \in Range(rendered)

\* The risk metrics have been computed in this run.
RiskComputed == pc \in {"risk_snapshot", "done"}

NumRows == Len(price_data.values)

\* The fund's cleaned price series.
FundSeries ==
    LET c == CHOOSE k \in 1..Len(price_data.columns) :
                 price_data.columns[k] = fund_ticker
    IN  [i \in 1..NumRows |-> price_data.values[i][c]]

\* Some ticker has a value on or before raw date j in every column.
AllKnownBy(raw, j) ==
    \A c \in 1..Len(raw.columns) : \E i \in 1..j : raw.values[i][c] # NaN

\* The fetched data is unavailable: the fetch is empty, a required ticker has
\* no Close column (a single-level table has no benchmark column), or no row
\* survives cleaning.
RawUnavailable ==
    \/ DataEmpty(data.close)
    \/ ~data.multi
    \/ \E k \in 1..Len(tickers) : tickers[k] \notin Range(data.close.columns)
    \/ ~\E j \in 1..Len(data.close.values) : AllKnownBy(data.close, j)

Shown(what) == what \in Range(rendered)

\* C1: once the table is cleaned and the guards have run, a table that lacks
\* a required ticker or has no row left has made the run stop with an error
\* shown to the user, without any exception from touching a first or last
\* row and without any return or risk computation.
C1_DataUnavailableSignalled ==
    (/\ Cleaned
     /\ pc # "check_missing"
     /\ \/ \E k \in 1..Len(tickers) : tickers[k] \notin Range(price_data.columns)
        \/ NumRows = 0)
    => /\ pc = "stopped"
       /\ exception = "none"
       /\ Shown("error: missing tickers")

\* C2: when the fetched data is unavailable the run never reaches a
\* rendering step and never completes: it shows none of the performance
\* snapshot, the chart and the risk snapshot, and when it has ended it has
\* ended on an error message or an exception; and the performance snapshot
\* or the chart is on the page only in runs whose fetch was not empty and
\* whose cleaned table has both tickers.
C2_AllOrNothing ==
    /\ (pc # "download" /\ RawUnavailable)
       => /\ ~Shown("Performance Snapshot")
          /\ ~Shown("chart")
          /\ ~Shown("Risk Profile Snapshot")
          /\ pc \notin {"snapshot", "chart", "risk", "risk_snapshot", "done"}
          /\ pc \in Terminal =>
                \/ Shown("error: no data")
                \/ Shown("error: missing tickers")
                \/ exception # "none"
    /\ (Shown("Performance Snapshot") \/ Shown("chart"))
       => /\ ~DataEmpty(data.close)
          /\ missing = <<>>
          /\ \A k \in 1..Len(tickers) : tickers[k] \in Range(price_data.columns)

C2_Witness ==
    /\ pc = "stopped"
    /\ data.multi
    /\ ~DataEmpty(data.close)
    /\ Len(missing) > 0
    /\ rendered = <<"error: missing tickers">>

\* C3: with exactly one retained date, the risk computation signals
\* InsufficientHistory or yields zero for volatility, maximum drawdown and
\* VaR, and the performance snapshot and the chart are rendered.
C3_SinglePointRisk ==
    (/\ NumRows = 1
     /\ ReturnsComputed
     /\ pc \notin {"snapshot", "chart", "risk"})
    => /\ Shown("Performance Snapshot")
       /\ Shown("chart")
       /\ \/ exception = "InsufficientHistory"
          \/ /\ volatility_sq = Q(0)
             /\ max_drawdown = Q(0)
             /\ VaR_95 = Q(0)

\* C4: with exactly two retained dates, the volatility is 0 or
\* InsufficientHistory is signalled; it is never not-a-number.
C4_TwoPointVolatility ==
    (NumRows = 2 /\ RiskComputed)
    => \/ volatility_sq = Q(0)
       \/ exception = "InsufficientHistory"

\* C5: the normalized series is 100 at the first retained date for every
\* instrument, and every normalized value is the price divided by the same
\* instrument's first price, times 100.
C5_NormalizedStartsAt100 ==
    ReturnsComputed
    => /\ norm_data.columns = price_data.columns
       /\ Len(norm_data.values) = NumRows
       /\ \A c \in 1..Len(price_data.columns) :
            /\ norm_data.values[1][c] = Q(100)
            /\ \A i \in 1..NumRows :
                 norm_data.values[i][c][1] * price_data.values[1][c]
                    = 100 * price_data.values[i][c] * norm_data.values[i][c][2]

C5_Witness ==
    /\ ReturnsComputed
    /\ NumRows >= 2
    /\ price_data.columns = <<benchmark_ticker, fund_ticker>>
    /\ price_data.values[1][1] # price_data.values[1][2]
    /\ price_data.values[2][1] # price_data.values[1][1]

NonDecreasing(p) == \A i \in 1..(Len(p) - 1) : p[i] <= p[i + 1]

\* C7: for a fund series of at least 2 prices the maximum drawdown is at
\* most 0, and it is 0 when the prices never decrease.
C7_DrawdownNonPositive ==
    (RiskComputed /\ NumRows >= 2)
    => /\ QLe(max_drawdown, Q(0))
       /\ NonDecreasing(FundSeries) => max_drawdown = Q(0)

C7_Witness ==
    /\ RiskComputed
    /\ NumRows = 3
    /\ NonDecreasing(FundSeries)
    /\ FundSeries[1] < FundSeries[3]
    /\ max_drawdown = Q(0)

\* C8: the maximum drawdown is the largest peak-to-trough decline over the
\* retained window: the minimum over dates i <= j of
\* (price[j] - price[i]) / price[i] * 100, the first date counting as a peak.
C8_PeakToTrough ==
    (RiskComputed /\ NumRows >= 2)
    => LET p == FundSeries
           Decline(i, j) == Rat((p[j] - p[i]) * 100, p[i])
       IN  /\ \E i \in 1..NumRows : \E j \in i..NumRows :
                max_drawdown = Decline(i, j)
           /\ \A i \in 1..NumRows : \A j \in i..NumRows :
                QLe(max_drawdown, Decline(i, j))

\* Last raw date on or before j at which column c has a value.
LastKnown(raw, c, j) ==
    CHOOSE i \in 1..j :
        /\ raw.values[i][c] # NaN
        /\ \A h \in (i + 1)..j : raw.values[h][c] = NaN

\* C9: the cleaned table has a value in every cell; each cell is the raw
\* value of that date or, where the raw cell is missing, the column's most
\* recent earlier raw value; a raw date is dropped exactly when some column
\* has no value on or before it; the retained dates are the remaining raw
\* dates in their original order.
C9_CleanedTable ==
    Cleaned
    => LET raw == data.close
           n == Len(raw.values)
           k == n - NumRows
       IN  /\ Len(price_data.columns) = Len(raw.columns)
           /\ k >= 0
           /\ \A j \in 1..n : (j <= k) <=> ~AllKnownBy(raw, j)
           /\ \A i \in 1..NumRows :
                /\ price_data.index[i] = raw.index[k + i]
                /\ \A c \in 1..Len(raw.columns) :
                     /\ price_data.values[i][c] # NaN
                     /\ price_data.values[i][c]
                           = raw.values[LastKnown(raw, c, k + i)][c]

C9_Witness ==
    /\ Cleaned
    /\ Len(data.close.columns) = 2
    /\ Len(data.close.values) = 3
    /\ NumRows = 2
    /\ \E c \in 1..2 : data.close.values[3][c] = NaN

\* The k-th smallest of the daily returns.
OrderStat(k) ==
    CHOOSE x \in Range(daily_returns) :
        /\ Cardinality({i \in 1..Len(daily_returns) : QLt(daily_returns[i], x)}) < k
        /\ k <= Cardinality({i \in 1..Len(daily_returns) : QLe(daily_returns[i], x)})

\* C10: for a fund series of at least 2 prices the daily returns are
\* price[i] / price[i-1] - 1, the VaR is 100 times their 5th percentile by
\* linear interpolation between adjacent order statistics, it lies between
\* the smallest and the largest return in percent, and it is the single
\* return in percent when there is one observation.
C10_VaRPercentile ==
    (RiskComputed /\ NumRows >= 2)
    => LET p == FundSeries
           m == Len(daily_returns)
           pos == 5 * (m - 1)
           lo == OrderStat(pos \div 100 + 1)
           hi == OrderStat(IF pos \div 100 + 2 <= m THEN pos \div 100 + 2 ELSE m)
       IN  /\ m = NumRows - 1
           /\ \A i \in 1..m : daily_returns[i] = Rat(p[i + 1] - p[i], p[i])
           /\ VaR_95 = QMul(QAdd(lo, QMul(Rat(pos % 100, 100), QSub(hi, lo))), Q(100))
           /\ QLe(QMul(OrderStat(1), Q(100)), VaR_95)
           /\ QLe(VaR_95, QMul(OrderStat(m), Q(100)))
           /\ m = 1 => VaR_95 = QMul(daily_returns[1], Q(100))

C10_Witness ==
    /\ RiskComputed
    /\ Len(daily_returns) = 2
    /\ QLt(daily_returns[2], daily_returns[1])
    /\ QLt(QMul(daily_returns[2], Q(100)), VaR_95)
====
